---- MODULE Spec2Model ----
(***************************************************************************)
(* Network-constrained movement and trajectory engine (Geograppy/loop).    *)
(*                                                                         *)
(* Planar coordinates are points <<x, y>> of the integer lattice (metres). *)
(* Every piece of network linework is axis-parallel, so arc lengths,       *)
(* projections and interpolations of lattice points are lattice points and *)
(* are computed exactly.  Geographic coordinates are the planar ones       *)
(* translated by Origin (the CRS conversion, exact in both directions).    *)
(***************************************************************************)
EXTENDS Integers, Sequences, FiniteSets, TLC

(***************************************************************************)
(* Bounds of the model and program constants.                              *)
(***************************************************************************)
MaxUpdates == 2
MaxMoves == 3
MaxElapsed == 4
MaxTrajOps == 2

MinLoopLength == 50
BufferRadius == 10

Origin == <<100, 200>>

(***************************************************************************)
(* Arithmetic and planar geometry (shapely on axis-parallel linework).     *)
(***************************************************************************)
Abs(n) == IF n < 0 THEN -n ELSE n

Min2(a, b) == IF a <= b THEN a ELSE b

Max2(a, b) == IF a >= b THEN a ELSE b

Clamp(v, lo, hi) == Max2(lo, Min2(v, hi))

Sign(n) == IF n > 0 THEN 1 ELSE IF n < 0 THEN -1 ELSE 0

Last(s) == s[Len(s)]

\* The function f, held as a table of its values.
Table(f) == f @@ <<>>

Reverse(s) == [i \in 1..Len(s) |-> s[Len(s) + 1 - i]]

Dist2(p, q) == (p[1] - q[1]) * (p[1] - q[1]) + (p[2] - q[2]) * (p[2] - q[2])

ISqrt(n) == CHOOSE r \in 0..n : r * r <= n /\ (r + 1) * (r + 1) > n

\* Point.distance: exact on axis-parallel pairs, rounded down to a whole
\* metre on the others (they arise only between trajectory coordinates).
Distance(p, q) ==
    IF p[1] = q[1] THEN Abs(p[2] - q[2])
    ELSE IF p[2] = q[2] THEN Abs(p[1] - q[1])
    ELSE ISqrt(Dist2(p, q))

\* Arc length of the first i-1 segments of a line.
CumLen(line, i) ==
    LET c[k \in 1..Len(line)] ==
            IF k = 1 THEN 0 ELSE c[k - 1] + Distance(line[k - 1], line[k])
    IN  IF i <= 1 THEN 0 ELSE c[i]

LineLength(line) == CumLen(line, Len(line))

\* Nearest point of the axis-parallel segment a-b to p.
ClosestOnSegment(a, b, p) ==
    IF a[2] = b[2]
    THEN <<Clamp(p[1], Min2(a[1], b[1]), Max2(a[1], b[1])), a[2]>>
    ELSE <<a[1], Clamp(p[2], Min2(a[2], b[2]), Max2(a[2], b[2]))>>

SegDist2(line, i, p) == Dist2(p, ClosestOnSegment(line[i], line[i + 1], p))

\* The first index of the function d at which it is minimal.
FirstMin(d) ==
    CHOOSE i \in DOMAIN d : \A j \in DOMAIN d : d[i] < d[j] \/ (d[i] = d[j] /\ i <= j)

\* First segment of the line at minimal distance from p.
NearestSegment(line, p) == FirstMin([i \in 1..(Len(line) - 1) |-> SegDist2(line, i, p)])

LineDist2(line, p) == SegDist2(line, NearestSegment(line, p), p)

\* LineString.project: arc-length offset of the point of the line nearest p.
LineProject(line, p) ==
    LET i == NearestSegment(line, p)
    IN  CumLen(line, i) + Distance(line[i], ClosestOnSegment(line[i], line[i + 1], p))

\* The point at distance t from a towards b on an axis-parallel segment.
Along(a, b, t) ==
    IF a[2] = b[2]
    THEN <<a[1] + Sign(b[1] - a[1]) * t, a[2]>>
    ELSE <<a[1], a[2] + Sign(b[2] - a[2]) * t>>

\* LineString.interpolate for a distance d >= 0 (clamped at the line's end).
LineInterpolate(line, d) ==
    IF d <= 0 THEN line[1]
    ELSE IF d >= LineLength(line) THEN Last(line)
    ELSE LET i == CHOOSE k \in 1..(Len(line) - 1) :
                      CumLen(line, k) <= d /\ d < CumLen(line, k + 1)
         IN  Along(line[i], line[i + 1], d - CumLen(line, i))

\* Vertices line[k], k in lo..hi (never the last one), whose arc offset lies
\* strictly between a and b.
RECURSIVE InnerVertices(_, _, _, _, _)
InnerVertices(line, k, hi, a, b) ==
    IF k > hi THEN <<>>
    ELSE (IF a < CumLen(line, k) /\ CumLen(line, k) < b THEN <<line[k]>> ELSE <<>>)
         \o InnerVertices(line, k + 1, hi, a, b)

\* shapely.ops.substring: a one-element sequence stands for a Point.
Substring(line, s, e) ==
    IF s = e THEN <<LineInterpolate(line, s)>>
    ELSE IF s >= LineLength(line) /\ e >= LineLength(line) THEN <<Last(line)>>
    ELSE LET lo  == Min2(s, e)
             hi  == Max2(s, e)
             fwd == <<LineInterpolate(line, lo)>>
                    \o InnerVertices(line, 1, Len(line) - 1, lo, hi)
                    \o <<LineInterpolate(line, hi)>>
         IN  IF s < e THEN fwd ELSE Reverse(fwd)

\* p lies on the segment a-b (any direction).
OnSegment(a, b, p) ==
    /\ (b[1] - a[1]) * (p[2] - a[2]) = (b[2] - a[2]) * (p[1] - a[1])
    /\ Min2(a[1], b[1]) <= p[1] /\ p[1] <= Max2(a[1], b[1])
    /\ Min2(a[2], b[2]) <= p[2] /\ p[2] <= Max2(a[2], b[2])

OnLine(line, p) ==
    \E i \in 1..(Len(line) - 1) : OnSegment(line[i], line[i + 1], p)

Orient(a, b, c) == Sign((b[1] - a[1]) * (c[2] - a[2]) - (b[2] - a[2]) * (c[1] - a[1]))

\* The closed segments a-b and c-d share a point.
SegmentsIntersect(a, b, c, d) ==
    \/ /\ Orient(a, b, c) * Orient(a, b, d) < 0
       /\ Orient(c, d, a) * Orient(c, d, b) < 0
    \/ OnSegment(a, b, c)
    \/ OnSegment(a, b, d)
    \/ OnSegment(c, d, a)
    \/ OnSegment(c, d, b)

\* LineString.intersects(LineString).
LinesIntersect(l1, l2) ==
    \E i \in 1..(Len(l1) - 1), j \in 1..(Len(l2) - 1) :
        SegmentsIntersect(l1[i], l1[i + 1], l2[j], l2[j + 1])

\* p is within distance r of the segment a-b.
NearSegment(a, b, p, r) ==
    LET l2 == Dist2(a, b)
        s  == (p[1] - a[1]) * (b[1] - a[1]) + (p[2] - a[2]) * (b[2] - a[2])
    IN  IF s <= 0 THEN Dist2(p, a) <= r * r
        ELSE IF s >= l2 THEN Dist2(p, b) <= r * r
        ELSE (Dist2(p, a) - r * r) * l2 <= s * s

\* line.buffer(r).intersects(Point p).
BufferContains(line, r, p) ==
    \E i \in 1..(Len(line) - 1) : NearSegment(line[i], line[i + 1], p, r)

\* ox.projection.project_geometry, to and from the graph's CRS.
ToCrs(g) == <<g[1] - Origin[1], g[2] - Origin[2]>>

ToLatLong(p) == <<p[1] + Origin[1], p[2] + Origin[2]>>

LineToCrs(line) == [i \in 1..Len(line) |-> ToCrs(line[i])]

LineToLatLong(line) == [i \in 1..Len(line) |-> ToLatLong(line[i])]

(***************************************************************************)
(* The street networks (SpatialGraph): node coordinates and the directed   *)
(* multigraph's edges in iteration order.  geom = <<>> is an edge without  *)
(* a 'geometry' attribute.  A Street is walkable in both directions, a     *)
(* OneWay in its own direction only.                                       *)
(***************************************************************************)
Street(u, v, k, len, geom) ==
    << [u |-> u, v |-> v, key |-> k, length |-> len, geom |-> geom],
       [u |-> v, v |-> u, key |-> k, length |-> len, geom |-> Reverse(geom)] >>

\* The path graph A-B-C with edge lengths 10 and 15.
PathGraph ==
    [ name |-> "path", order |-> <<"A", "B", "C">>,
      nodes |-> [n \in {"A", "B", "C"} |->
                    CASE n = "A" -> <<0, 0>> [] n = "B" -> <<10, 0>> [] n = "C" -> <<25, 0>>],
      edges |-> Street("A", "B", 0, 10, <<>>) \o Street("B", "C", 0, 15, <<>>) ]

\* A cycle A-B-C-D of length >= MinLoopLength (the side C-D is a bent
\* street) and a second component E-F with two parallel streets.
LoopGraph ==
    [ name |-> "loop", order |-> <<"A", "B", "C", "D", "E", "F">>,
      nodes |-> [n \in {"A", "B", "C", "D", "E", "F"} |->
                    CASE n = "A" -> <<0, 0>> [] n = "B" -> <<20, 0>>
                      [] n = "C" -> <<20, 15>> [] n = "D" -> <<0, 15>>
                      [] n = "E" -> <<40, 0>> [] n = "F" -> <<50, 0>>],
      edges |-> Street("A", "B", 0, 20, <<>>)
                \o Street("B", "C", 0, 15, << <<20, 0>>, <<20, 5>>, <<20, 15>> >>)
                \o Street("C", "D", 0, 30, << <<20, 15>>, <<20, 20>>, <<0, 20>>, <<0, 15>> >>)
                \o Street("D", "A", 0, 15, <<>>)
                \o Street("E", "F", 0, 10, <<>>)
                \o Street("E", "F", 1, 20, << <<40, 0>>, <<40, 5>>, <<50, 5>>, <<50, 0>> >>) ]

\* A one-way street, walkable in its own direction only.
OneWay(u, v, k, len, geom) ==
    << [u |-> u, v |-> v, key |-> k, length |-> len, geom |-> geom] >>

\* Two one-way streets in a row, A -> B -> C, 25 m each: no way back.
OneWayGraph ==
    [ name |-> "oneway", order |-> <<"A", "B", "C">>,
      nodes |-> [n \in {"A", "B", "C"} |->
                    CASE n = "A" -> <<0, 0>> [] n = "B" -> <<25, 0>> [] n = "C" -> <<50, 0>>],
      edges |-> OneWay("A", "B", 0, 25, <<>>) \o OneWay("B", "C", 0, 25, <<>>) ]

Graph(name) ==
    IF name = "path" THEN PathGraph ELSE IF name = "oneway" THEN OneWayGraph ELSE LoopGraph

NodePoint(G, n) == G.nodes[n]

\* Straight line between the end nodes (an edge without geometry).
Chord(G, u, v) == <<NodePoint(G, u), NodePoint(G, v)>>

\* The linework of edge e: its geometry, else the chord.
EdgeLine(G, e) == IF e.geom # <<>> THEN e.geom ELSE Chord(G, e.u, e.v)

\* graph.get_edge_data(u, v, key)
EdgeData(G, u, v, k) ==
    CHOOSE e \in {G.edges[i] : i \in 1..Len(G.edges)} : e.u = u /\ e.v = v /\ e.key = k

HasEdge(G, u, v) == \E i \in 1..Len(G.edges) : G.edges[i].u = u /\ G.edges[i].v = v

\* ox.nearest_edges: the first edge, in iteration order, at minimal distance.
NearestEdge(G, p) ==
    G.edges[FirstMin([i \in 1..Len(G.edges) |-> LineDist2(EdgeLine(G, G.edges[i]), p)])]

\* graph.successors(n), in adjacency order.
RECURSIVE SuccessorsFrom(_, _, _)
SuccessorsFrom(G, n, i) ==
    IF i > Len(G.edges) THEN <<>>
    ELSE LET e == G.edges[i]
             first == e.u = n /\ \A j \in 1..(i - 1) : ~(G.edges[j].u = n /\ G.edges[j].v = e.v)
         IN  (IF first THEN <<e.v>> ELSE <<>>) \o SuccessorsFrom(G, n, i + 1)

Successors(G, n) == SuccessorsFrom(G, n, 1)

\* Weight of the step u -> v for the path search: the shortest parallel edge.
StepLength(G, u, v) ==
    LET ls == {G.edges[i].length : i \in {j \in 1..Len(G.edges) : G.edges[j].u = u /\ G.edges[j].v = v}}
    IN  CHOOSE l \in ls : \A m \in ls : l <= m

PathLength(G, path) ==
    LET c[k \in 1..Len(path)] ==
            IF k = 1 THEN 0 ELSE c[k - 1] + StepLength(G, path[k - 1], path[k])
    IN  c[Len(path)]

InPath(path, n) == \E i \in 1..Len(path) : path[i] = n

\* The simple paths from s to t.
PathsTo(G, s, t) ==
    LET N == Cardinality(DOMAIN G.nodes)
        ok(p) == /\ HasEdge(G, p[Len(p) - 1], Last(p))
                 /\ ~InPath(SubSeq(p, 1, Len(p) - 1), Last(p))
        Q[k \in 1..N] ==
            IF k = 1 THEN {<<s>>}
            ELSE { p \in { Append(q, n) : q \in {r \in Q[k - 1] : Last(r) # t},
                                          n \in DOMAIN G.nodes } : ok(p) }
    IN  UNION { {p \in Q[k] : Last(p) = t} : k \in 1..N }

NodeRank(G, n) == CHOOSE i \in 1..Len(G.order) : G.order[i] = n

\* p comes before q: fewer nodes, then node order at the first difference.
PathBefore(G, p, q) ==
    \/ Len(p) < Len(q)
    \/ /\ Len(p) = Len(q)
       /\ \/ p = q
          \/ \E i \in 1..Len(p) :
                /\ \A j \in 1..(i - 1) : p[j] = q[j]
                /\ NodeRank(G, p[i]) < NodeRank(G, q[i])

NoPath == <<>>

\* The length-weighted path search from s to t; NoPath when t is unreachable.
\* Among paths of equal length the search's answer is fixed by PathBefore.
PathSearch(G, s, t) ==
    LET all  == PathsTo(G, s, t)
        len  == [p \in all |-> PathLength(G, p)]
        best == {p \in all : \A q \in all : len[p] <= len[q]}
    IN  IF all = {} THEN NoPath
        ELSE CHOOSE p \in best : \A q \in best : PathBefore(G, p, q)

\* The answers of the path search on each network.
RoutesOf(G) ==
    Table([st \in (DOMAIN G.nodes) \X (DOMAIN G.nodes) |-> PathSearch(G, st[1], st[2])])

Routes ==
    [path |-> RoutesOf(PathGraph), loop |-> RoutesOf(LoopGraph), oneway |-> RoutesOf(OneWayGraph)]

\* ox.shortest_path / nx.shortest_path(G, s, t, weight='length')
ShortestPath(G, s, t) == Routes[G.name][<<s, t>>]

\* _snap_to_edge, computed: the snapped point and the edge it lies on.
SnapSearch(G, p) ==
    LET e    == NearestEdge(G, p)
        line == EdgeLine(G, e)
    IN  [pt |-> LineInterpolate(line, LineProject(line, p)), u |-> e.u, v |-> e.v, key |-> e.key]

\* The planar region that holds the networks and every position used.
Region == (0..50) \X (0..20)

\* The answers of the snap on each network, for every point of the region.
Snaps ==
    [ path |-> Table([p \in Region |-> SnapSearch(PathGraph, p)]),
      loop |-> Table([p \in Region |-> SnapSearch(LoopGraph, p)]),
      oneway |-> Table([p \in Region |-> SnapSearch(OneWayGraph, p)]) ]

\* A snap that keeps the raw point.
SnapToEdgeRaw(G, p) == [SnapSearch(G, p) EXCEPT !.pt = p]

\* A snap that lands one metre further along the edge than the nearest point.
SnapToEdgeAhead(G, p) ==
    [Snaps[G.name][p] EXCEPT
        !.pt = LineInterpolate(
                   EdgeLine(G, EdgeData(G, Snaps[G.name][p].u, Snaps[G.name][p].v,
                                        Snaps[G.name][p].key)),
                   LineProject(EdgeLine(G, EdgeData(G, Snaps[G.name][p].u, Snaps[G.name][p].v,
                                                    Snaps[G.name][p].key)),
                               Snaps[G.name][p].pt) + 1)]

\* _snap_to_edge (PlayingField and CloseLoopStrategy hold the same code)
SnapToEdge(G, p) == Snaps[G.name][p]

\* p lies on the linework of some edge of the graph.
OnNetwork(G, p) == \E i \in 1..Len(G.edges) : OnLine(EdgeLine(G, G.edges[i]), p)

(***************************************************************************)
(* Trajectory (models/trajectory.py).  None and the empty geometry are     *)
(* <<>>; a geometry is its sequence of coordinates.                        *)
(***************************************************************************)
TrajectoryIsEmpty(geometry) == geometry = <<>>

\* A merge that drops the sub-path's first coordinate whatever it is.
TrajectoryUpdateDropFirst(geometry, sub) ==
    IF geometry = <<>> THEN sub ELSE geometry \o Tail(sub)

\* A merge that replaces the geometry by the sub-path.
TrajectoryUpdateReplace(geometry, sub) == sub

\* A merge that never drops the shared coordinate.
TrajectoryUpdateConcat(geometry, sub) == geometry \o sub

\* The answer None of start_point and last_known_point.
NoPoint == <<>>

\* Trajectory.start_point
TrajectoryStartPoint(geometry) == IF geometry = <<>> THEN NoPoint ELSE geometry[1]

\* Trajectory.last_known_point
TrajectoryLastKnownPoint(geometry) == IF geometry = <<>> THEN NoPoint ELSE Last(geometry)

\* Trajectory.update
TrajectoryUpdate(geometry, sub) ==
    IF geometry = <<>> THEN sub
    ELSE IF Last(geometry) = sub[1] THEN geometry \o Tail(sub)
    ELSE geometry \o sub

(***************************************************************************)
(* PlayingField (models/playing_field.py).                                 *)
(***************************************************************************)
\* _orient_edge_to_node
OrientEdgeToNode(geom, pt) ==
    IF geom[1] = pt THEN geom
    ELSE IF Last(geom) = pt THEN Reverse(geom)
    ELSE geom

\* _orient_edge_away_from_node
OrientEdgeAwayFromNode(geom, pt) ==
    IF geom[1] = pt THEN Reverse(geom)
    ELSE IF Last(geom) = pt THEN geom
    ELSE geom

\* _get_farthest_node
FarthestNode(G, u, v, p) ==
    IF Dist2(p, NodePoint(G, u)) > Dist2(p, NodePoint(G, v)) THEN u ELSE v

\* "if coords[-1] == sub_coords[0]: extend(sub_coords[1:]) else extend(sub_coords)",
\* and the same test for a substring that is a single Point.
ExtendDedup(coords, sub) ==
    IF Last(coords) = sub[1] THEN coords \o Tail(sub) ELSE coords \o sub

\* update_current_location, lines 80-90: the part of the edge's geometry
\* between the two points (nothing for an edge without geometry).
WithinEdgeSubstring(geom, sp, ep) ==
    IF geom # <<>>
    THEN Substring(geom, LineProject(geom, sp), LineProject(geom, ep))
    ELSE <<>>

\* A same-edge stitching that leaves out the new location.
WithinEdgeCoordsNoEnd(G, sp, ep, u, v) ==
    <<sp>> \o WithinEdgeSubstring(EdgeData(G, u, v, 0).geom, sp, ep)

\* update_current_location, same-edge branch: the planar coordinates.
WithinEdgeCoords(G, sp, ep, u, v) ==
    (<<sp>> \o WithinEdgeSubstring(EdgeData(G, u, v, 0).geom, sp, ep)) \o <<ep>>

\* Lines 116-133: the first edge, oriented as g, from the start point on.
FirstEdgeCoords(coords, g, sp) ==
    ExtendDedup(coords, Substring(g, LineProject(g, sp), LineLength(g)))

\* Lines 135-152: the last edge, oriented as g, up to the end point.
LastEdgeCoords(coords, g, ep) ==
    ExtendDedup(coords, Substring(g, 0, LineProject(g, ep)))

\* Lines 111-157: one turn of the loop, for the node `node` of the path;
\* geom is the geometry of the key-0 edge into it, npt the point of path[-1].
AcrossStep(G, path, node, geom, npt, coords, sp, ep) ==
    IF geom # <<>>
    THEN IF node = path[2]
         THEN FirstEdgeCoords(coords, OrientEdgeToNode(geom, npt), sp)
         ELSE IF node = path[Len(path) - 1]
         THEN LastEdgeCoords(coords, OrientEdgeAwayFromNode(geom, npt), ep)
         ELSE coords \o geom
    ELSE Append(coords, NodePoint(G, node))

\* update_current_location, cross-edge branch: the loop over path[1:-1],
\* from the i-th node of the path on.
RECURSIVE AcrossLoop(_, _, _, _, _, _)
AcrossLoop(G, path, i, coords, sp, ep) ==
    IF i > Len(path) - 1 THEN coords
    ELSE AcrossLoop(G, path, i + 1,
                    AcrossStep(G, path, path[i], EdgeData(G, path[i - 1], path[i], 0).geom,
                               NodePoint(G, Last(path)), coords, sp, ep),
                    sp, ep)

\* A stitching that never appends the end point.
AppendEndSkipped(coords, ep) == coords

\* Lines 158-159: the end point is appended unless it is the last coordinate.
AppendEnd(coords, ep) == IF Last(coords) = ep THEN coords ELSE Append(coords, ep)

\* update_current_location, cross-edge branch, for a path that was found.
AcrossNodesCoords(G, path, sp, ep) == AppendEnd(AcrossLoop(G, path, 2, <<sp>>, sp, ep), ep)

\* The route searched by the cross-edge branch.
AcrossNodesPath(G, s, e) ==
    ShortestPath(G, FarthestNode(G, s.u, s.v, e.pt), FarthestNode(G, e.u, e.v, s.pt))

\* A registration that stores the raw location.
AddPlayerLocationRaw(G, loc) == loc

\* add_player: the Location stored as start and as last-known location.
AddPlayerLocation(G, loc) == ToLatLong(SnapToEdge(G, ToCrs(loc)).pt)

\* _get_player_last_known_location
PlayerLastKnownLocation(starts, trajs, id) ==
    IF TrajectoryIsEmpty(trajs[id]) THEN starts[id] ELSE Last(trajs[id])

\* What update_current_location does to the field: branch names the path
\* taken; raised = an exception leaves the call; sub is the planar polyline
\* that was stitched, path the route, s and e the two snaps.
\* Lines 94-98 and 160-166: the stitched polyline is merged and the snapped
\* new location stored.
Stitched(branch, lasts, trajs, id, s, e, path, coords) ==
    [branch |-> branch, raised |-> FALSE,
     lasts |-> [lasts EXCEPT ![id] = ToLatLong(e.pt)],
     trajs |-> [trajs EXCEPT ![id] = TrajectoryUpdate(@, LineToLatLong(coords))],
     sub |-> coords, path |-> path, s |-> s, e |-> e]

\* Lines 103-164, given the answer of the path search.  Without a path the
\* slice path[1:-1] raises and nothing is stored.
UpdateAcross(G, lasts, trajs, id, s, e, path) ==
    IF path = NoPath
    THEN [branch |-> "nopath", raised |-> TRUE, lasts |-> lasts, trajs |-> trajs,
          sub |-> <<>>, path |-> NoPath, s |-> s, e |-> e]
    ELSE Stitched("cross", lasts, trajs, id, s, e, path,
                  AcrossNodesCoords(G, path, s.pt, e.pt))

\* Lines 71-166, given the snaps s of the last known and e of the new location.
UpdateBetween(G, lasts, trajs, id, s, e) ==
    IF <<s.u, s.v>> = <<e.u, e.v>>
    THEN Stitched("same", lasts, trajs, id, s, e, NoPath,
                  WithinEdgeCoords(G, s.pt, e.pt, s.u, s.v))
    ELSE UpdateAcross(G, lasts, trajs, id, s, e, AcrossNodesPath(G, s, e))

\* An update that registers an unknown id at the new location.
UpdateCurrentLocationRegistering(G, starts, lasts, trajs, id, loc) ==
    IF id \notin DOMAIN trajs
    THEN [branch |-> "unknown", raised |-> FALSE,
          lasts |-> (id :> ToLatLong(SnapToEdge(G, ToCrs(loc)).pt)) @@ lasts,
          trajs |-> (id :> <<>>) @@ trajs,
          sub |-> <<>>, path |-> NoPath, s |-> <<>>, e |-> <<>>]
    ELSE UpdateBetween(G, lasts, trajs, id,
                       SnapToEdge(G, ToCrs(PlayerLastKnownLocation(starts, trajs, id))),
                       SnapToEdge(G, ToCrs(loc)))

\* An update that writes the new last-known location for every agent.
UpdateCurrentLocationShared(G, starts, lasts, trajs, id, loc) ==
    IF id \notin DOMAIN trajs
    THEN [branch |-> "unknown", raised |-> FALSE, lasts |-> lasts, trajs |-> trajs,
          sub |-> <<>>, path |-> NoPath, s |-> <<>>, e |-> <<>>]
    ELSE [UpdateBetween(G, lasts, trajs, id,
                        SnapToEdge(G, ToCrs(PlayerLastKnownLocation(starts, trajs, id))),
                        SnapToEdge(G, ToCrs(loc)))
            EXCEPT !.lasts = [i \in DOMAIN lasts |-> ToLatLong(SnapToEdge(G, ToCrs(loc)).pt)]]

\* update_current_location
UpdateCurrentLocationResult(G, starts, lasts, trajs, id, loc) ==
    IF id \notin DOMAIN trajs
    THEN [branch |-> "unknown", raised |-> FALSE, lasts |-> lasts, trajs |-> trajs,
          sub |-> <<>>, path |-> NoPath, s |-> <<>>, e |-> <<>>]
    ELSE UpdateBetween(G, lasts, trajs, id,
                       SnapToEdge(G, ToCrs(PlayerLastKnownLocation(starts, trajs, id))),
                       SnapToEdge(G, ToCrs(loc)))

(***************************************************************************)
(* CloseLoopStrategy (models/strategy.py).                                 *)
(***************************************************************************)
\* _get_closest_node
ClosestNode(G, u, v, p) ==
    IF Dist2(p, NodePoint(G, u)) > Dist2(p, NodePoint(G, v)) THEN v ELSE u

\* Lines 215-230, for the edge's linework.
DistAlong(line, p, atStart) ==
    IF atStart THEN LineProject(line, p) ELSE LineLength(line) - LineProject(line, p)

\* _get_dist_to_closest_node_along_the_edge
DistToClosestNodeAlongTheEdge(G, p, u, v, k, closest) ==
    DistAlong(EdgeLine(G, EdgeData(G, u, v, k)), p, closest = u)

\* A partial move that walks away from the closest node.
PartialMoveOnLineAway(line, atStart, dist, budget) ==
    IF atStart
    THEN LineInterpolate(line, Min2(dist + budget, LineLength(line)))
    ELSE LineInterpolate(line, Max2((LineLength(line) - dist) - budget, 0))

\* Lines 60-68, for the edge's linework.
PartialMoveOnLine(line, atStart, dist, budget) ==
    IF atStart
    THEN LineInterpolate(line, Max2(dist - budget, 0))
    ELSE LineInterpolate(line, Min2((LineLength(line) - dist) + budget, LineLength(line)))

\* next_move, lines 50-70: the move towards the closest node by the budget.
PartialMoveOnEdge(G, u, v, k, closest, dist, budget) ==
    PartialMoveOnLine(EdgeLine(G, EdgeData(G, u, v, k)), closest = u, dist, budget)

\* next_move, lines 78-83: the length of the trajectory so far.
RECURSIVE TrajectoryLength(_)
TrajectoryLength(geometry) ==
    IF Len(geometry) <= 1 THEN 0
    ELSE Distance(ToCrs(geometry[1]), ToCrs(geometry[2])) + TrajectoryLength(Tail(geometry))

\* A neighbour test without the visited test of line 108.
NeighbourQualifiesRevisiting(G, geometry, visited, cur, n) ==
    ~(~TrajectoryIsEmpty(geometry) /\ LinesIntersect(LineToCrs(geometry), Chord(G, cur, n)))

\* next_move, lines 93-112: the neighbour n of cur passes the two tests.
\* get_edge_data(cur, n) of a multigraph is keyed by edge key, so the edge
\* is always taken as the chord between the two nodes.
NeighbourQualifies(G, geometry, visited, cur, n) ==
    /\ ~(~TrajectoryIsEmpty(geometry) /\ LinesIntersect(LineToCrs(geometry), Chord(G, cur, n)))
    /\ n \notin visited

NoNode == "none"

\* The first node of succ from the i-th on that qualifies, or NoNode.
RECURSIVE FirstQualifying(_, _, _, _, _, _)
FirstQualifying(G, geometry, visited, cur, succ, i) ==
    IF i > Len(succ) THEN NoNode
    ELSE IF NeighbourQualifies(G, geometry, visited, cur, succ[i]) THEN succ[i]
    ELSE FirstQualifying(G, geometry, visited, cur, succ, i + 1)

\* next_move, lines 87-115: the next node, or NoNode.
NextNode(G, geometry, visited, cur) ==
    FirstQualifying(G, geometry, visited, cur, Successors(G, cur), 1)

\* next_move, lines 139-147: the point reached on the edge cur -> next when
\* the edge is longer than the remaining budget.
PartialAdvance(G, cur, next, remaining) ==
    LineInterpolate(OrientEdgeToNode(Chord(G, cur, next), NodePoint(G, next)), remaining)

\* next_move, lines 86-147: the exploration loop.  st = [node, remaining,
\* tlen, visited, pt, trail, partial, advance, stalled]: trail lists the nodes
\* advanced to, partial is the node of a partly walked edge and advance the
\* budget that was left for it, stalled tells that no neighbour qualified.
RECURSIVE Explore(_, _, _, _)
\* One turn of a loop that does not mark the node advanced to as visited.
ExploreStepUnmarked(G, geometry, minLoop, st, next) ==
    IF next = NoNode THEN [st EXCEPT !.stalled = TRUE]
    ELSE IF LineLength(Chord(G, st.node, next)) <= st.remaining
    THEN Explore(G, geometry, minLoop,
                 [st EXCEPT !.node = next,
                            !.remaining = st.remaining - LineLength(Chord(G, st.node, next)),
                            !.tlen = st.tlen + LineLength(Chord(G, st.node, next)),
                            !.pt = NodePoint(G, next),
                            !.trail = Append(st.trail, next)])
    ELSE [st EXCEPT !.pt = PartialAdvance(G, st.node, next, st.remaining),
                    !.remaining = 0,
                    !.partial = next,
                    !.advance = st.remaining]

\* Lines 114-147: one turn of the loop, with the next node found.
ExploreStep(G, geometry, minLoop, st, next) ==
    IF next = NoNode THEN [st EXCEPT !.stalled = TRUE]
    ELSE IF LineLength(Chord(G, st.node, next)) <= st.remaining
    THEN Explore(G, geometry, minLoop,
                 [st EXCEPT !.node = next,
                            !.remaining = st.remaining - LineLength(Chord(G, st.node, next)),
                            !.tlen = st.tlen + LineLength(Chord(G, st.node, next)),
                            !.visited = st.visited \cup {next},
                            !.pt = NodePoint(G, next),
                            !.trail = Append(st.trail, next)])
    ELSE [st EXCEPT !.pt = PartialAdvance(G, st.node, next, st.remaining),
                    !.remaining = 0,
                    !.partial = next,
                    !.advance = st.remaining]

Explore(G, geometry, minLoop, st) ==
    IF ~(st.remaining > 0 /\ st.tlen < minLoop) THEN st
    ELSE ExploreStep(G, geometry, minLoop, st, NextNode(G, geometry, st.visited, st.node))

\* Lines 160-164: the end node, given the edge e nearest the start.
EndNodeOf(G, geometry, visited, e) ==
    IF ~TrajectoryIsEmpty(geometry)
    THEN IF BufferContains(LineToCrs(geometry), BufferRadius, NodePoint(G, e.u)) \/ e.u \in visited
         THEN e.v ELSE e.u
    ELSE IF e.u \in visited THEN e.v ELSE e.u

\* next_move, lines 151-164: the node the loop is closed towards.
CloseLoopEndNode(G, geometry, visited, snapped) ==
    EndNodeOf(G, geometry, visited,
              NearestEdge(G, IF TrajectoryIsEmpty(geometry) THEN snapped ELSE ToCrs(geometry[1])))

\* next_move, lines 172-187: the walk along the path from its i-th node;
\* pt is the location held so far.
RECURSIVE WalkPath(_, _, _, _, _)
WalkPath(G, path, i, remaining, pt) ==
    IF i > Len(path) - 1 THEN pt
    ELSE IF LineLength(Chord(G, path[i], path[i + 1])) <= remaining
    THEN WalkPath(G, path, i + 1, remaining - LineLength(Chord(G, path[i], path[i + 1])), pt)
    ELSE LineInterpolate(Chord(G, path[i], path[i + 1]), remaining)

\* A closing phase that gives the whole move up when no path is found: the
\* agent is left at the snapped position it was given.
NodeMoveResultAborting(G, now, budget, s, closest, dist, closing, st, path) ==
    [pt |-> ToLatLong(IF closing /\ path # NoPath
                      THEN WalkPath(G, path, 1, st.remaining, st.pt)
                      ELSE IF closing THEN s.pt ELSE st.pt),
     timestamp |-> now, visited |-> st.visited,
     budget |-> budget, snapped |-> s.pt, branch |-> "node", closest |-> closest,
     dist |-> dist, trail |-> st.trail, partial |-> st.partial,
     advance |-> st.advance, stalled |-> st.stalled,
     remaining |-> st.remaining, node |-> st.node, tlen |-> st.tlen,
     closing |-> IF ~closing THEN "none" ELSE IF path = NoPath THEN "nopath" ELSE "walked",
     closepath |-> path]

\* What next_move gives: the returned Location (pt, timestamp), the
\* strategy's visited_nodes after the call, and what the call did.
\* Lines 150-192, given the exploration's end st and the closing path.
NodeMoveResult(G, now, budget, s, closest, dist, closing, st, path) ==
    [pt |-> ToLatLong(IF closing /\ path # NoPath
                      THEN WalkPath(G, path, 1, st.remaining, st.pt)
                      ELSE st.pt),
     timestamp |-> now, visited |-> st.visited,
     budget |-> budget, snapped |-> s.pt, branch |-> "node", closest |-> closest,
     dist |-> dist, trail |-> st.trail, partial |-> st.partial,
     advance |-> st.advance, stalled |-> st.stalled,
     remaining |-> st.remaining, node |-> st.node, tlen |-> st.tlen,
     closing |-> IF ~closing THEN "none" ELSE IF path = NoPath THEN "nopath" ELSE "walked",
     closepath |-> path]

\* Lines 149-170, given the exploration's end st.
NodeMove(G, geometry, minLoop, now, budget, s, closest, dist, st) ==
    NodeMoveResult(G, now, budget, s, closest, dist, st.tlen >= minLoop, st,
                   IF st.tlen >= minLoop
                   THEN ShortestPath(G, st.node, CloseLoopEndNode(G, geometry, st.visited, s.pt))
                   ELSE NoPath)

\* Lines 49-192, given the closest node and the distance to it.
MoveFrom(G, geometry, visited, minLoop, now, budget, s, closest, dist) ==
    IF dist > budget
    THEN [pt |-> ToLatLong(PartialMoveOnEdge(G, s.u, s.v, s.key, closest, dist, budget)),
          timestamp |-> now, visited |-> visited, budget |-> budget, snapped |-> s.pt,
          branch |-> "partial", closest |-> closest, dist |-> dist, trail |-> <<>>,
          partial |-> NoNode, advance |-> 0, stalled |-> FALSE, remaining |-> 0,
          node |-> closest, tlen |-> 0, closing |-> "none", closepath |-> NoPath]
    ELSE NodeMove(G, geometry, minLoop, now, budget, s, closest, dist,
                  Explore(G, geometry, minLoop,
                          [node |-> closest, remaining |-> budget - dist,
                           tlen |-> TrajectoryLength(geometry),
                           visited |-> visited \cup {closest}, pt |-> NodePoint(G, closest),
                           trail |-> <<>>, partial |-> NoNode, advance |-> 0,
                           stalled |-> FALSE]))

\* Lines 42-48, given the budget and the snap s of the last known location.
MoveSnapped(G, geometry, visited, minLoop, now, budget, s) ==
    MoveFrom(G, geometry, visited, minLoop, now, budget, s,
             ClosestNode(G, s.u, s.v, s.pt),
             DistToClosestNodeAlongTheEdge(G, s.pt, s.u, s.v, s.key,
                                           ClosestNode(G, s.u, s.v, s.pt)))

\* A next_move whose Location keeps the timestamp of the Location given.
CloseLoopNextMoveUnstamped(G, geometry, visited, minLoop, loc, speed, now) ==
    [MoveSnapped(G, geometry, visited, minLoop, now,
                 Max2(0, speed * (now - loc.timestamp)), SnapToEdge(G, ToCrs(loc.pt)))
        EXCEPT !.timestamp = loc.timestamp]

\* A next_move whose budget is not clamped at 0.
CloseLoopNextMoveUnclamped(G, geometry, visited, minLoop, loc, speed, now) ==
    MoveSnapped(G, geometry, visited, minLoop, now,
                speed * (now - loc.timestamp), SnapToEdge(G, ToCrs(loc.pt)))

\* CloseLoopStrategy.next_move.  loc = [pt, timestamp] is the last known
\* Location, geometry the agent's trajectory in the field.
CloseLoopNextMove(G, geometry, visited, minLoop, loc, speed, now) ==
    MoveSnapped(G, geometry, visited, minLoop, now,
                Max2(0, speed * (now - loc.timestamp)), SnapToEdge(G, ToCrs(loc.pt)))

(***************************************************************************)
(* Player (models/player.py).  A Location is [pt, timestamp].              *)
(***************************************************************************)
\* The strategy's answer None.
NoLocation == [pt |-> <<>>, timestamp |-> -1]

\* A stationary strategy that stamps the location with another time.
NoopNextMoveRestamped(loc) == [loc EXCEPT !.timestamp = loc.timestamp + 1]

\* NoopStrategy.next_move
NoopNextMove(loc) == loc

\* Player.update_current_location, given what the field's call did: the
\* Location is appended before the field is called, so it stays appended
\* when that call raises.
Moved(locations, next, upd) ==
    [locations |-> Append(locations, next), lasts |-> upd.lasts, trajs |-> upd.trajs,
     result |-> IF upd.raised THEN "raised" ELSE "True",
     branch |-> upd.branch, sub |-> upd.sub]

\* Player.move with the strategy's answer `next` (NoLocation for None): the
\* Player's _locations, the field's maps and what move() gives back.
PlayerMoveResult(G, starts, lasts, trajs, id, locations, next) ==
    IF next = NoLocation
    THEN [locations |-> locations, lasts |-> lasts, trajs |-> trajs, result |-> "False",
          branch |-> "none", sub |-> <<>>]
    ELSE Moved(locations, next,
               UpdateCurrentLocationResult(G, starts, lasts, trajs, id, next.pt))

(***************************************************************************)
(* State.                                                                  *)
(***************************************************************************)
VARIABLES
    graph,                  \* the street network of the PlayingField
    start_locations,        \* PlayingField._player_start_locations
    last_known_locations,   \* PlayingField._player_last_known_locations
    trajectories,           \* PlayingField._player_trajectories (geometries)
    players,                \* the Player objects, with their strategies
    clock,                  \* datetime.now
    traj,                   \* a Trajectory of its own (no field)
    steps,                  \* calls made so far
    last_call               \* the last call and what it did

vars == <<graph, start_locations, last_known_locations, trajectories, players,
          clock, traj, steps, last_call>>

PlayerIds == {"1", "2"}

Empty == [i \in {} |-> <<>>]

\* Raw planar positions handed to the field, on and off the network.
FieldPoints == {<<0, 0>>, <<0, 10>>, <<20, 10>>, <<21, 3>>, <<5, 1>>, <<10, 19>>,
                <<42, 6>>, <<48, 4>>}

FieldLocations == {ToLatLong(p) : p \in FieldPoints}

(***************************************************************************)
(* Spec: a PlayingField driven by add_player and update_current_location.  *)
(***************************************************************************)
Init ==
    /\ graph = "loop"
    /\ start_locations = Empty
    /\ last_known_locations = Empty
    /\ trajectories = Empty
    /\ players = Empty
    /\ clock = 0
    /\ traj = <<>>
    /\ steps = 0
    /\ last_call = [op |-> "init"]

AddPlayer(id, loc) ==
    /\ \E snapped \in {AddPlayerLocation(Graph(graph), loc)} :
           /\ start_locations' = (id :> snapped) @@ start_locations
           /\ last_known_locations' = (id :> snapped) @@ last_known_locations
    /\ trajectories' = (id :> <<>>) @@ trajectories
    /\ last_call' = [op |-> "add_player", id |-> id, loc |-> loc]
    /\ UNCHANGED <<graph, players, clock, traj, steps>>

UpdateCurrentLocation(id, loc) ==
    /\ steps < MaxUpdates
    /\ \E r \in {UpdateCurrentLocationResult(Graph(graph), start_locations,
                                             last_known_locations, trajectories, id, loc)} :
           /\ last_known_locations' = r.lasts
           /\ trajectories' = r.trajs
           /\ last_call' = [op |-> "update", id |-> id, loc |-> loc, branch |-> r.branch,
                            raised |-> r.raised, sub |-> r.sub, path |-> r.path,
                            s |-> r.s, e |-> r.e]
    /\ steps' = steps + 1
    /\ UNCHANGED <<graph, start_locations, players, clock, traj>>

Next ==
    \/ \E id \in PlayerIds, loc \in FieldLocations : AddPlayer(id, loc)
    \/ \E id \in PlayerIds, loc \in FieldLocations : UpdateCurrentLocation(id, loc)

Spec == Init /\ [][Next]_vars

(***************************************************************************)
(* TrajSpec: a Trajectory of its own, driven by update.                    *)
(***************************************************************************)
TrajPoints == {<<0, 0>>, <<1, 0>>, <<1, 1>>}

\* The LineStrings of two or three coordinates over TrajPoints.
SubPaths == [1..2 -> TrajPoints] \cup [1..3 -> TrajPoints]

TrajInit ==
    /\ graph = "loop"
    /\ start_locations = Empty
    /\ last_known_locations = Empty
    /\ trajectories = Empty
    /\ players = Empty
    /\ clock = 0
    /\ traj = <<>>
    /\ steps = 0
    /\ last_call = [op |-> "init"]

TrajUpdate(sub) ==
    /\ steps < MaxTrajOps
    /\ traj' = TrajectoryUpdate(traj, sub)
    /\ last_call' = [op |-> "traj_update", before |-> traj, sub |-> sub]
    /\ steps' = steps + 1
    /\ UNCHANGED <<graph, start_locations, last_known_locations, trajectories, players, clock>>

TrajNext == \E sub \in SubPaths : TrajUpdate(sub)

TrajSpec == TrajInit /\ [][TrajNext]_vars

(***************************************************************************)
(* PlayerSpec: one Player on a field, driven by move().  A move is made    *)
(* dt seconds after the one before.                                        *)
(***************************************************************************)
\* Raw planar positions a Player is constructed at.
PlayerStarts == {<<0, 0>>, <<25, 0>>, <<4, 2>>, <<20, 10>>, <<8, 19>>}

\* max_moving_speed, metres per second.
Speeds == {5, 15}

StrategyKinds == {"noop", "closeloop", "custom"}

\* What a MovementStrategy may answer: None, or a Location anywhere.
CustomTargets == {<<5, 1>>, <<42, 6>>}

\* Player.__init__: the Player and its registration with the field.
PlayerInit ==
    \E g \in {"path", "loop"}, p \in PlayerStarts, k \in StrategyKinds, sp \in Speeds :
        /\ graph = g
        /\ start_locations = ("1" :> AddPlayerLocation(Graph(g), ToLatLong(p)))
        /\ last_known_locations = ("1" :> AddPlayerLocation(Graph(g), ToLatLong(p)))
        /\ trajectories = ("1" :> <<>>)
        /\ players = ("1" :> [locations |-> <<[pt |-> ToLatLong(p), timestamp |-> 0]>>,
                              kind |-> k, speed |-> sp, visited |-> {}])
        /\ clock = 0
        /\ traj = <<>>
        /\ steps = 0
        /\ last_call = [op |-> "init"]

\* Player.move, given the strategy's answer `next` and the strategy's
\* visited_nodes after the call; m is what the strategy did.
Move(id, dt, next, visited, m) ==
    /\ steps < MaxMoves
    /\ clock' = clock + dt
    /\ \E r \in {PlayerMoveResult(Graph(graph), start_locations, last_known_locations,
                                  trajectories, id, players[id].locations, next)} :
           /\ players' = [players EXCEPT ![id].locations = r.locations,
                                         ![id].visited = visited]
           /\ last_known_locations' = r.lasts
           /\ trajectories' = r.trajs
           /\ last_call' = [op |-> "move", id |-> id, kind |-> players[id].kind, dt |-> dt,
                            next |-> next, result |-> r.result, branch |-> r.branch,
                            sub |-> r.sub, m |-> m]
    /\ steps' = steps + 1
    /\ UNCHANGED <<graph, start_locations, traj>>

MoveNoop(id, dt) ==
    /\ players[id].kind = "noop"
    /\ Move(id, dt, NoopNextMove(Last(players[id].locations)), players[id].visited, <<>>)

MoveCloseLoop(id, dt) ==
    /\ players[id].kind = "closeloop"
    /\ \E m \in {CloseLoopNextMove(Graph(graph), trajectories[id], players[id].visited,
                                   MinLoopLength, Last(players[id].locations),
                                   players[id].speed, clock + dt)} :
           Move(id, dt, [pt |-> m.pt, timestamp |-> m.timestamp], m.visited, m)

MoveCustom(id, dt, next) ==
    /\ players[id].kind = "custom"
    /\ Move(id, dt, next, players[id].visited, <<>>)

PlayerNext ==
    \/ \E dt \in 1..MaxElapsed : MoveNoop("1", dt)
    \/ \E dt \in 1..MaxElapsed : MoveCloseLoop("1", dt)
    \/ \E dt \in 1..MaxElapsed, p \in CustomTargets :
           MoveCustom("1", dt, [pt |-> ToLatLong(p), timestamp |-> clock + dt])
    \/ \E dt \in 1..MaxElapsed : MoveCustom("1", dt, NoLocation)

PlayerSpec == PlayerInit /\ [][PlayerNext]_vars

(***************************************************************************)
(* StrategySpec: a CloseLoopStrategy called on its own, with current_time  *)
(* given and each answer handed back as the next last known Location; the  *)
(* field is registered with and never updated, so the Trajectory is empty. *)
(* players[id].locations is the chain of Locations of the caller.          *)
(***************************************************************************)
\* Raw planar positions of the first Location.
StrategyStarts == {<<0, 0>>, <<4, 2>>, <<10, 1>>, <<8, 19>>, <<20, 12>>}

\* Seconds from the last Location's timestamp to current_time: the call may
\* be given a time that is not later.
Elapsed == {-1, 0} \cup (1..MaxElapsed)

StrategyInit ==
    \E g \in {"path", "loop", "oneway"}, p \in StrategyStarts, sp \in Speeds :
        /\ graph = g
        /\ start_locations = ("1" :> AddPlayerLocation(Graph(g), ToLatLong(p)))
        /\ last_known_locations = ("1" :> AddPlayerLocation(Graph(g), ToLatLong(p)))
        /\ trajectories = ("1" :> <<>>)
        /\ players = ("1" :> [locations |-> <<[pt |-> ToLatLong(p), timestamp |-> 0]>>,
                              kind |-> "closeloop", speed |-> sp, visited |-> {}])
        /\ clock = 0
        /\ traj = <<>>
        /\ steps = 0
        /\ last_call = [op |-> "init"]

\* strategy.next_move(given, field, speed, id, current_time = now), with
\* what the call did in m.
NextMoveCalled(id, dt, given, now, m) ==
    /\ players' = [players EXCEPT
                      ![id].locations = Append(@, [pt |-> m.pt, timestamp |-> m.timestamp]),
                      ![id].visited = m.visited]
    /\ clock' = now
    /\ last_call' = [op |-> "next_move", id |-> id, dt |-> dt, given |-> given,
                     before |-> players[id].visited,
                     next |-> [pt |-> m.pt, timestamp |-> m.timestamp], m |-> m]

NextMove(id, dt) ==
    /\ steps < MaxMoves
    /\ NextMoveCalled(id, dt, Last(players[id].locations),
                      Last(players[id].locations).timestamp + dt,
                      CloseLoopNextMove(Graph(graph), trajectories[id], players[id].visited,
                                        MinLoopLength, Last(players[id].locations),
                                        players[id].speed,
                                        Last(players[id].locations).timestamp + dt))
    /\ steps' = steps + 1
    /\ UNCHANGED <<graph, start_locations, last_known_locations, trajectories, traj>>

StrategyNext == \E dt \in Elapsed : NextMove("1", dt)

StrategySpec == StrategyInit /\ [][StrategyNext]_vars

(***************************************************************************)
(* Properties.                                                             *)
(***************************************************************************)
Field == Graph(graph)

\* The last call was a move of a Player with the loop-exploring strategy.
CloseLoopMoved == last_call.op = "move" /\ last_call.kind = "closeloop"

\* The last call was an update that stitched a polyline.
Updated(branches) == last_call.op = "update" /\ last_call.branch \in branches

\* C1: budget conservation - the planar distance between the snapped input
\* location and the location returned by the loop-exploring next_move never
\* exceeds maxSpeed x elapsedSeconds (compared as squares).
C1_BudgetConservation ==
    CloseLoopMoved =>
        Dist2(last_call.m.snapped, ToCrs(last_call.next.pt))
            <= last_call.m.budget * last_call.m.budget

\* C2: on-network invariant - the stored start location and last-known
\* location of every registered agent lie on the linework of some edge.
C2_OnNetwork ==
    \A id \in DOMAIN start_locations :
        /\ OnNetwork(Field, ToCrs(start_locations[id]))
        /\ OnNetwork(Field, ToCrs(last_known_locations[id]))

\* An update with a raw location off the network was stored.
C2_Witness ==
    /\ Updated({"same", "cross"})
    /\ ~OnNetwork(Field, ToCrs(last_call.loc))
    /\ last_known_locations[last_call.id] = ToLatLong(last_call.e.pt)

\* C3: Trajectory.update merge rule - empty: the result is the sub-path;
\* last coordinate = the sub-path's first: the old coordinates, then the
\* sub-path without its first; otherwise the old coordinates, then every
\* coordinate of the sub-path.
C3_MergeRule ==
    last_call.op = "traj_update" =>
        LET old == last_call.before
            sub == last_call.sub
        IN  IF old = <<>> THEN traj = sub
            ELSE /\ SubSeq(traj, 1, Len(old)) = old
                 /\ IF Last(old) = sub[1]
                    THEN /\ Len(traj) = Len(old) + Len(sub) - 1
                         /\ \A i \in 2..Len(sub) : traj[Len(old) + i - 1] = sub[i]
                    ELSE /\ Len(traj) = Len(old) + Len(sub)
                         /\ \A i \in 1..Len(sub) : traj[Len(old) + i] = sub[i]

\* A sub-path whose first coordinate differs from the trajectory's last was merged.
C3_Witness ==
    /\ last_call.op = "traj_update"
    /\ last_call.before # <<>>
    /\ Last(last_call.before) # last_call.sub[1]
    /\ Len(traj) = Len(last_call.before) + Len(last_call.sub)

\* The lattice points of the axis-parallel segment a-b.
SegmentPoints(a, b) ==
    (Min2(a[1], b[1])..Max2(a[1], b[1])) \X (Min2(a[2], b[2])..Max2(a[2], b[2]))

\* The segment a-b runs along the linework of one edge of the graph.
OnOneEdge(G, a, b) ==
    /\ a[1] = b[1] \/ a[2] = b[2]
    /\ \E i \in 1..Len(G.edges) :
           \A p \in SegmentPoints(a, b) : OnLine(EdgeLine(G, G.edges[i]), p)

\* C4: cross-edge stitching connectivity - every pair of consecutive
\* coordinates of the polyline stitched across edges lies on the linework
\* of one network edge.
C4_StitchingConnectivity ==
    Updated({"cross"}) =>
        \A i \in 1..(Len(last_call.sub) - 1) :
            OnOneEdge(Field, last_call.sub[i], last_call.sub[i + 1])

\* C5: stitching endpoints - the stitched polyline starts at the snapped
\* start point and ends at the snapped end point, on one edge or across.
C5_StitchingEndpoints ==
    Updated({"same", "cross"}) =>
        /\ last_call.sub[1] = last_call.s.pt
        /\ Last(last_call.sub) = last_call.e.pt

\* Stitched on one edge with geometry, the end point nearer the edge's start.
C5_Witness ==
    /\ Updated({"same"})
    /\ EdgeData(Field, last_call.s.u, last_call.s.v, 0).geom # <<>>
    /\ LineProject(EdgeData(Field, last_call.s.u, last_call.s.v, 0).geom, last_call.e.pt)
         < LineProject(EdgeData(Field, last_call.s.u, last_call.s.v, 0).geom, last_call.s.pt)

\* C6: no-path safety - an update between two disconnected components does
\* not raise and leaves the trajectories unchanged.
C6_NoPathSafety ==
    [][(last_call'.op = "update" /\ last_call'.branch = "nopath")
           => (~last_call'.raised /\ trajectories' = trajectories)]_vars

\* C7: Player.move gives True or False, never an exception, and a move that
\* did not succeed leaves the Player's current location and the field's
\* last-known location as they were.
C7_MoveNeverRaises ==
    [][last_call'.op = "move"
           => /\ last_call'.result \in {"True", "False"}
              /\ last_call'.result # "True"
                    => /\ Last(players'[last_call'.id].locations)
                            = Last(players[last_call'.id].locations)
                       /\ last_known_locations' = last_known_locations]_vars

\* A move of the loop-exploring strategy that stays at the point pt: the
\* agent stands on a node, every neighbour of the node is already visited
\* (so none qualifies, whatever the intersection tests say) and the
\* trajectory is shorter than the minimum loop length.
DeadEndMove(m, pt) ==
    /\ m.branch = "node" /\ m.dist = 0
    /\ m.stalled /\ m.trail = <<>>
    /\ \A i \in 1..Len(Successors(Field, m.node)) :
           Successors(Field, m.node)[i] \in m.visited
    /\ m.closing = "none"
    /\ m.pt = pt

\* Whatever the time it waits, the next_move of agent id is a dead-end move.
DeadEnd(id) ==
    \A dt \in 1..MaxElapsed :
        DeadEndMove(CloseLoopNextMove(Field, trajectories[id], players[id].visited,
                                      MinLoopLength, Last(players[id].locations),
                                      players[id].speed, clock + dt),
                    Last(players[id].locations).pt)

\* A dead end is never left: after a dead-end move the agent is in a dead end.
DeadEndIsFinal ==
    (/\ CloseLoopMoved
     /\ DeadEndMove(last_call.m,
                    players[last_call.id].locations[Len(players[last_call.id].locations) - 1].pt))
        => DeadEnd(last_call.id)

\* The cycle A-B-C-D of the loop graph.
Cycle == <<"A", "B", "C", "D", "A">>

\* The agent's start lies on a cycle of at least the minimum loop length.
StartOnCycle(id) ==
    /\ graph = "loop"
    /\ PathLength(LoopGraph, Cycle) >= MinLoopLength
    /\ \E i \in 1..(Len(Cycle) - 1) :
           OnLine(EdgeLine(LoopGraph, EdgeData(LoopGraph, Cycle[i], Cycle[i + 1], 0)),
                  ToCrs(start_locations[id]))

\* The trajectory has come back to its first coordinate.
BackAtStart(geometry) == \E i \in 2..Len(geometry) : geometry[i] = geometry[1]

\* C8: loop closure liveness, as far as a finite run can refute it - a
\* loop-exploring agent that started on a long enough cycle is in a dead
\* end only after its trajectory has come back to its start point.
C8_LoopClosure ==
    \A id \in DOMAIN players :
        (players[id].kind = "closeloop" /\ StartOnCycle(id) /\ DeadEnd(id))
            => BackAtStart(trajectories[id])

\* C9: partial advance onto a new edge - standing at a node with budget r
\* left and a chosen edge longer than r, next_move gives the point at arc
\* length r from that node along the edge.
C9_PartialAdvance ==
    (CloseLoopMoved /\ last_call.m.partial # NoNode) =>
        ToCrs(last_call.next.pt)
            = LineInterpolate(Chord(Field, last_call.m.node, last_call.m.partial),
                              last_call.m.advance)

\* C10: unknown agent - update_current_location for an id that is not
\* registered changes none of the field's maps and raises nothing.
C10_UnknownAgentNoOp ==
    [][(last_call'.op = "update" /\ last_call'.id \notin DOMAIN trajectories)
           => /\ start_locations' = start_locations
              /\ last_known_locations' = last_known_locations
              /\ trajectories' = trajectories
              /\ ~last_call'.raised]_vars

\* An update for an unknown id was made on a field that holds another agent.
C10_Witness ==
    /\ last_call.op = "update"
    /\ last_call.id \notin DOMAIN trajectories
    /\ DOMAIN trajectories # {}

\* The lattice points of the region that lie on each network's linework.
NetworkPoints ==
    [ path |-> DOMAIN Table([q \in {r \in Region : OnNetwork(PathGraph, r)} |-> TRUE]),
      loop |-> DOMAIN Table([q \in {r \in Region : OnNetwork(LoopGraph, r)} |-> TRUE]) ]

\* p is a point of the network G at the least distance from raw.
NearestOnNetwork(G, raw, p) ==
    /\ p \in NetworkPoints[G.name]
    /\ \A q \in NetworkPoints[G.name] : Dist2(raw, p) <= Dist2(raw, q)

\* C11: registration - right after add_player(id, L) the start location and
\* the last-known location of id hold the same coordinates, the point of
\* the network nearest to L, and the Trajectory of id exists and is empty.
C11_Registration ==
    last_call.op = "add_player" =>
        /\ last_call.id \in DOMAIN start_locations
        /\ last_call.id \in DOMAIN last_known_locations
        /\ last_call.id \in DOMAIN trajectories
        /\ start_locations[last_call.id] = last_known_locations[last_call.id]
        /\ NearestOnNetwork(Field, ToCrs(last_call.loc), ToCrs(start_locations[last_call.id]))
        /\ trajectories[last_call.id] = <<>>

\* An agent was registered at a raw location off the network.
C11_Witness ==
    /\ last_call.op = "add_player"
    /\ ~OnNetwork(Field, ToCrs(last_call.loc))
    /\ start_locations[last_call.id] # last_call.loc
    /\ trajectories[last_call.id] = <<>>

\* The sequence a is a prefix of the sequence b.
IsPrefix(a, b) == Len(a) <= Len(b) /\ SubSeq(b, 1, Len(a)) = a

C13_AppendOnly ==
    last_call.op = "traj_update" =>
        /\ IsPrefix(last_call.before, traj)
        /\ \A i \in 1..Len(last_call.before) : traj[i] = last_call.before[i]
        /\ last_call.before # <<>>
               => TrajectoryStartPoint(traj) = TrajectoryStartPoint(last_call.before)
        /\ TrajectoryLastKnownPoint(traj) = Last(last_call.sub)

\* A second sub-path was merged into a trajectory whose start point differs
\* from the sub-path's coordinates.
C13_Witness ==
    /\ last_call.op = "traj_update"
    /\ steps = 2
    /\ Len(traj) > Len(last_call.before)
    /\ \A i \in 1..Len(last_call.sub) : last_call.sub[i] # TrajectoryStartPoint(traj)

\* C14: merge associativity - from any trajectory, update([a,b]) followed
\* by update([b,c]) gives the same coordinates as one update([a,b,c]).
C14_MergeAssociativity ==
    \A a \in TrajPoints, b \in TrajPoints, c \in TrajPoints :
        TrajectoryUpdate(TrajectoryUpdate(traj, <<a, b>>), <<b, c>>)
            = TrajectoryUpdate(traj, <<a, b, c>>)

\* [a,b] and then [b,c] were merged into the empty trajectory, and the
\* trajectory reached is one the two merges are applied to again.
C14_Witness ==
    /\ last_call.op = "traj_update"
    /\ steps = 2
    /\ Len(last_call.before) = 2 /\ Len(last_call.sub) = 2
    /\ Last(last_call.before) = last_call.sub[1]
    /\ traj = TrajectoryUpdate(<<>>, <<last_call.before[1], last_call.sub[1], last_call.sub[2]>>)
    /\ last_call.before[1] # last_call.sub[2]

\* The snap `again` of the point q is q itself, on an edge that holds q.
SnapFixedAt(G, q, again) ==
    /\ again.pt = q
    /\ OnLine(EdgeLine(G, EdgeData(G, again.u, again.v, again.key)), q)

\* Snapping the snap of p gives the snap of p.
SnapTwice(G, p) == SnapFixedAt(G, SnapToEdge(G, p).pt, SnapToEdge(G, SnapToEdge(G, p).pt))

\* On each network, snapping twice equals snapping once at every point of the region.
SnapTwiceEverywhere ==
    [ path |-> \A p \in Region : SnapTwice(PathGraph, p),
      loop |-> \A p \in Region : SnapTwice(LoopGraph, p) ]

\* C15: snap idempotence - snapping a point that is the result of a snap
\* gives the same point, on an edge whose geometry contains it: for every
\* point of the region, for every stored location, and for the last-known
\* location that update_current_location snaps again.
C15_SnapIdempotence ==
    /\ SnapTwiceEverywhere[graph]
    /\ \A id \in DOMAIN last_known_locations :
           /\ SnapTwice(Field, ToCrs(start_locations[id]))
           /\ SnapFixedAt(Field, ToCrs(last_known_locations[id]),
                          SnapToEdge(Field, ToCrs(last_known_locations[id])))
    /\ (last_call.op = "update" /\ last_call.branch # "unknown")
           => SnapFixedAt(Field, last_call.s.pt, SnapToEdge(Field, last_call.s.pt))

\* An update snapped again a last-known location that an earlier snap had
\* put inside a street with geometry, away from the raw point.
C15_Witness ==
    /\ Updated({"same", "cross"})
    /\ EdgeData(Field, last_call.s.u, last_call.s.v, last_call.s.key).geom # <<>>
    /\ \A n \in DOMAIN Field.nodes : NodePoint(Field, n) # last_call.s.pt
    /\ last_call.s.pt \notin FieldPoints

\* C16: stationary strategy - the location NoopStrategy.next_move returns
\* is the location it was given (coordinates and timestamp), for every
\* speed, time of the call and field state.
C16_StationaryStrategy ==
    [][(last_call'.op = "move" /\ last_call'.kind = "noop")
           => last_call'.next = Last(players[last_call'.id].locations)]_vars

\* The stationary strategy answered a move made some seconds after the
\* location was taken, off the network.
C16_Witness ==
    /\ last_call.op = "move" /\ last_call.kind = "noop"
    /\ clock > last_call.next.timestamp
    /\ ~OnNetwork(Field, ToCrs(last_call.next.pt))
    /\ Len(players[last_call.id].locations) >= 3

\* The last call was a next_move made on the strategy itself.
NextMoved == last_call.op = "next_move"

\* C17: timestamping - the Location returned by the loop-exploring
\* next_move carries the call's now on every branch, and the budget of a
\* call is the speed times the seconds since the call before (never < 0).
C17_Timestamping ==
    [][last_call'.op = "next_move"
           => /\ last_call'.next.timestamp = clock'
              /\ last_call'.m.timestamp = last_call'.given.timestamp + last_call'.dt
              /\ last_call'.m.budget
                    = Max2(0, players[last_call'.id].speed * (clock' - clock))]_vars

\* A second call went through exploration and found no path back for the
\* loop closing; its budget was counted from the first call's time.
C17_Witness ==
    /\ NextMoved /\ steps >= 2
    /\ last_call.m.closing = "nopath"
    /\ last_call.m.trail # <<>>
    /\ last_call.given.timestamp # 0
    /\ last_call.next.timestamp = clock

\* C18: budget clamp - the budget is speed x (now - timestamp) and never
\* negative; when now is not later than the timestamp the budget is 0 and
\* the returned location is the snapped position of the location given.
C18_BudgetClamp ==
    NextMoved =>
        /\ last_call.m.budget >= 0
        /\ last_call.dt > 0 => last_call.m.budget = players[last_call.id].speed * last_call.dt
        /\ last_call.dt <= 0
               => /\ last_call.m.budget = 0
                  /\ ToCrs(last_call.next.pt)
                        = SnapToEdge(Field, ToCrs(last_call.given.pt)).pt

\* A call with now earlier than the timestamp, for an agent inside an edge
\* that an earlier call had moved.
C18_Witness ==
    /\ NextMoved /\ last_call.dt < 0
    /\ last_call.m.branch = "partial" /\ last_call.m.dist > 0
    /\ steps >= 2
    /\ last_call.given.pt # players[last_call.id].locations[1].pt

\* C19: agent independence - an add_player or update_current_location for
\* one agent leaves the start location, the last-known location and the
\* Trajectory of every other registered agent as they were.
C19_AgentIndependence ==
    [][\A other \in DOMAIN trajectories :
           (last_call'.op \in {"add_player", "update"} /\ other # last_call'.id)
               => /\ other \in DOMAIN trajectories'
                  /\ start_locations'[other] = start_locations[other]
                  /\ last_known_locations'[other] = last_known_locations[other]
                  /\ trajectories'[other] = trajectories[other]]_vars

\* One agent's update was stitched across edges while the other agent held
\* a trajectory of its own, at another place.
C19_Witness ==
    /\ Updated({"cross"})
    /\ \E other \in DOMAIN trajectories :
           /\ other # last_call.id
           /\ trajectories[other] # <<>>
           /\ last_known_locations[other] # last_known_locations[last_call.id]

\* Arc length between two points of a line.
ArcBetween(line, p, q) == Abs(LineProject(line, p) - LineProject(line, q))

\* From sp on the line, r is the point at arc length b from sp and d - b
\* from the end point `node`, d being the arc length from sp to node; near
\* and far are the edge's two end points, the closest one first.
MidEdgeMoved(line, sp, r, near, far, b, d) ==
    /\ Dist2(sp, near) <= Dist2(sp, far)
    /\ d = ArcBetween(line, sp, near)
    /\ OnLine(line, r)
    /\ ArcBetween(line, sp, r) = b
    /\ ArcBetween(line, r, near) = d - b

\* The end node of the edge of snap s that is not n.
OtherEnd(s, n) == IF n = s.u THEN s.v ELSE s.u

EdgesBetween(G, u, v) ==
    {G.edges[i] : i \in {j \in 1..Len(G.edges) : G.edges[j].u = u /\ G.edges[j].v = v}}

\* Some street from cur to n has linework that does not meet the trajectory.
EdgeAvoids(G, geometry, cur, n) ==
    \/ TrajectoryIsEmpty(geometry)
    \/ \E e \in EdgesBetween(G, cur, n) :
           ~LinesIntersect(LineToCrs(geometry), EdgeLine(G, e))

\* The neighbour n of cur is unvisited and is reached by a street that does
\* not meet the trajectory.
EdgeQualifies(G, geometry, visited, cur, n) ==
    n \notin visited /\ EdgeAvoids(G, geometry, cur, n)

\* The nodes of the edges chosen by a call: the node the exploration began
\* at, the nodes advanced to and the node of a partly walked edge.
Hops(m) ==
    <<m.closest>> \o m.trail \o (IF m.partial # NoNode THEN <<m.partial>> ELSE <<>>)

\* visited_nodes when the j-th edge was chosen.
VisitedAt(before, m, j) == before \cup {Hops(m)[i] : i \in 1..j}

\* The j-th chosen edge qualifies and no earlier successor does.
FirstChoice(G, geometry, visited, cur, n) ==
    /\ EdgeQualifies(G, geometry, visited, cur, n)
    /\ \A i \in 1..Len(Successors(G, cur)) :
           (\A k \in 1..i : Successors(G, cur)[k] # n)
               => ~EdgeQualifies(G, geometry, visited, cur, Successors(G, cur)[i])

\* What C21 says of a call that reached a node, with the trajectory and the
\* visited set it began with.
ExplorationChoice(G, geometry, before, m) ==
    /\ \A j \in 1..(Len(Hops(m)) - 1) :
           FirstChoice(G, geometry, VisitedAt(before, m, j), Hops(m)[j], Hops(m)[j + 1])
    /\ \/ m.remaining = 0
       \/ m.tlen >= MinLoopLength
       \/ \A i \in 1..Len(Successors(G, m.node)) :
              ~EdgeQualifies(G, geometry, m.visited, m.node, Successors(G, m.node)[i])

\* C21: exploration edge choice - every edge the loop-exploring strategy
\* advances along leads to a node that was not visited when chosen and has
\* linework that does not intersect the agent's trajectory, it is the first
\* such neighbour in successor order, and exploration stops only when no
\* neighbour qualifies, the budget is used up or the threshold is reached.
C21_ExplorationEdgeChoice ==
    [][(last_call'.op = "move" /\ last_call'.kind = "closeloop"
            /\ last_call'.m.branch = "node")
           => ExplorationChoice(Field, trajectories[last_call'.id],
                                players[last_call'.id].visited, last_call'.m)]_vars

\* C22: exploring-to-returning transition - the loop-closing phase is
\* attempted in a next_move call when the accumulated loop length has
\* reached the threshold, and also when exploration stalls (no qualifying
\* outgoing edge) with budget remaining.
C22_ReturnTransition ==
    (NextMoved /\ last_call.m.branch = "node")
        => /\ last_call.m.tlen >= MinLoopLength => last_call.m.closing # "none"
           /\ (last_call.m.stalled /\ last_call.m.remaining > 0)
                  => last_call.m.closing # "none"

\* The loop-closing walk as C23 describes it, along the path from its i-th
\* node: an edge that fits moves the agent to its far node, the first edge
\* that does not fit is walked by what is left of the budget.
RECURSIVE ClosingWalk(_, _, _, _, _)
ClosingWalk(G, path, i, remaining, pt) ==
    IF i > Len(path) - 1 THEN pt
    ELSE IF LineLength(Chord(G, path[i], path[i + 1])) <= remaining
    THEN ClosingWalk(G, path, i + 1,
                     remaining - LineLength(Chord(G, path[i], path[i + 1])),
                     NodePoint(G, path[i + 1]))
    ELSE LineInterpolate(Chord(G, path[i], path[i + 1]), remaining)

\* C23: loop-closing walk - along the shortest path to the end node every
\* edge that fits in the remaining budget moves the agent to that edge's far
\* node, and the first edge that does not fit is interpolated by the
\* remaining budget from its near node; when every edge fits, the returned
\* location is the path's final node.
C23_ClosingWalk ==
    (CloseLoopMoved /\ last_call.m.closing = "walked")
        => ToCrs(last_call.next.pt)
              = ClosingWalk(Field, last_call.m.closepath, 1, last_call.m.remaining,
                            NodePoint(Field, last_call.m.node))

\* C24: soft failure of loop closing - when no path leads from the current
\* node to the chosen end node, next_move gives the location reached by the
\* exploration phase (the last node advanced to), stamped with now.
C24_SoftFailure ==
    (NextMoved /\ last_call.m.closing = "nopath")
        => /\ last_call.m.closepath = NoPath
           /\ last_call.m.partial = NoNode
           /\ ToCrs(last_call.next.pt) = NodePoint(Field, last_call.m.node)
           /\ last_call.m.node
                 = Last(<<last_call.m.closest>> \o last_call.m.trail)
           /\ last_call.next.timestamp = last_call.given.timestamp + last_call.dt
           /\ last_call.next.timestamp = clock

\* On the one-way streets a call explored from A over B to C, found no way
\* back to the end node and gave C, away from where it began.
C24_Witness ==
    /\ NextMoved /\ last_call.m.closing = "nopath"
    /\ graph = "oneway"
    /\ last_call.m.trail = <<"B", "C">>
    /\ ToCrs(last_call.next.pt) = NodePoint(Field, "C")
    /\ ToCrs(last_call.next.pt) # last_call.m.snapped

\* No two consecutive coordinates of the line are equal.
NoRepeats(line) == \A i \in 1..(Len(line) - 1) : line[i] # line[i + 1]

\* C25: no duplicate boundary coordinates - the polyline produced by
\* cross-edge stitching never has two equal consecutive coordinates where
\* two of its segments meet (start point, edges of the route, end point).
C25_NoDuplicateBoundary ==
    (Updated({"cross"}) /\ ~last_call.raised) => NoRepeats(last_call.sub)

\* C26: the visited set is monotone - over the next_move calls made on one
\* strategy no node ever leaves visited_nodes, and the node a call reached
\* first and every node it advanced to while exploring are in the set when
\* the call returns.
C26_VisitedMonotone ==
    [][last_call'.op = "next_move"
           => /\ players[last_call'.id].visited \subseteq players'[last_call'.id].visited
              /\ last_call'.m.branch = "node"
                    => /\ last_call'.m.closest \in players'[last_call'.id].visited
                       /\ \A i \in 1..Len(last_call'.m.trail) :
                              last_call'.m.trail[i] \in players'[last_call'.id].visited
              /\ last_call'.m.branch = "partial"
                    => players'[last_call'.id].visited = players[last_call'.id].visited]_vars

\* A later call began with nodes already visited, advanced over two more
\* nodes and left the strategy with all of them.
C26_Witness ==
    /\ NextMoved /\ steps >= 2
    /\ last_call.before # {}
    /\ Len(last_call.m.trail) >= 2
    /\ last_call.before \subseteq players[last_call.id].visited
    /\ last_call.before # players[last_call.id].visited
    /\ \A i \in 1..Len(last_call.m.trail) :
           /\ last_call.m.trail[i] \notin last_call.before
           /\ last_call.m.trail[i] \in players[last_call.id].visited

\* min_loop_length values a strategy may be constructed with besides the
\* default: one reached at once and one never reached.
Thresholds == {0, 1000}

\* A speed that in one second gives a budget longer than all streets together.
FastSpeed == 100

\* The nodes of the sequence are all different.
Distinct(seq) == \A i, j \in 1..Len(seq) : i # j => seq[i] # seq[j]

\* The call m, begun with the visited set `before`, made a bounded number of
\* turns: each node it advanced to was new, so there are fewer advances than
\* nodes; a partly walked edge or a stall ended the loop; and the closing
\* path is a simple path from the node exploration ended at.
CallBounded(G, before, m) ==
    m.branch = "node"
        => /\ Distinct(<<m.closest>> \o m.trail)
           /\ \A i \in 1..Len(m.trail) : m.trail[i] \notin before
           /\ Len(m.trail) < Cardinality(DOMAIN G.nodes)
           /\ m.node = Last(<<m.closest>> \o m.trail)
           /\ m.partial # NoNode => (m.partial \notin m.visited /\ m.remaining = 0)
           /\ m.closing = "walked"
                 => /\ Distinct(m.closepath)
                    /\ m.closepath[1] = m.node
                    /\ Len(m.closepath) <= Cardinality(DOMAIN G.nodes)

\* C27: termination - on the finite network every loop-exploring next_move
\* ends, whatever the budget and the threshold: each turn of the
\* exploration loop stops the loop or moves to a node not visited before,
\* and the closing walk passes each edge of its path at most once.
C27_Termination ==
    /\ NextMoved => CallBounded(Field, last_call.before, last_call.m)
    /\ \A id \in DOMAIN players, th \in Thresholds :
           \E m \in {CloseLoopNextMove(Field, trajectories[id], players[id].visited, th,
                                       Last(players[id].locations), FastSpeed,
                                       Last(players[id].locations).timestamp + 1)} :
               CallBounded(Field, players[id].visited, m)

\* A call whose loop was ended by the visited set alone: it advanced, then
\* no neighbour qualified, with budget left and the threshold not reached.
C27_Witness ==
    /\ NextMoved /\ last_call.m.branch = "node"
    /\ last_call.m.trail # <<>>
    /\ last_call.m.stalled
    /\ last_call.m.remaining > 0
    /\ last_call.m.tlen < MinLoopLength
    /\ Len(Successors(Field, last_call.m.node)) > 0

\* An update of agent id completed and merged a stitched sub-path; before is
\* the agent's trajectory when the call began, after the one it left.
Continuous(G, start, before, after, c) ==
    /\ c.sub[1] = SnapToEdge(G, ToCrs(IF before = <<>> THEN start ELSE Last(before))).pt
    /\ before = <<>> => after = LineToLatLong(c.sub)
    /\ before # <<>>
          => /\ ToLatLong(c.sub[1]) = Last(before)
             /\ after = before \o Tail(LineToLatLong(c.sub))
             /\ c.e.pt # c.s.pt => after[Len(before) + 1] # after[Len(before)]

\* C28: trajectory continuity - the stitched sub-path starts at the snap of
\* the trajectory's last point (of the registered start location while the
\* trajectory is empty); so each merged sub-path begins at the trajectory's
\* previous last point and the trajectory stays one connected polyline in
\* which the point where two sub-paths meet is stored once.
C28_TrajectoryContinuity ==
    [][(last_call'.op = "update" /\ last_call'.branch \in {"same", "cross"}
            /\ ~last_call'.raised)
           => Continuous(Field, start_locations[last_call'.id],
                         trajectories[last_call'.id], trajectories'[last_call'.id],
                         last_call')]_vars

\* C29: last-known mirrors the trajectory tail - after every
\* update_current_location that completes for a registered agent, the
\* stored last-known location has the coordinates of the trajectory's last
\* point, and both are the snap of the new location.
C29_LastKnownMirrorsTail ==
    (Updated({"same", "cross"}) /\ ~last_call.raised)
        => /\ ~TrajectoryIsEmpty(trajectories[last_call.id])
           /\ last_known_locations[last_call.id]
                 = TrajectoryLastKnownPoint(trajectories[last_call.id])
           /\ last_known_locations[last_call.id]
                 = ToLatLong(SnapToEdge(Field, ToCrs(last_call.loc)).pt)

\* A second update, given a position off the network, crossed to another
\* street over a route with an inner node.
C29_Witness ==
    /\ Updated({"cross"}) /\ ~last_call.raised
    /\ steps = 2
    /\ Len(last_call.path) >= 3
    /\ ~OnNetwork(Field, ToCrs(last_call.loc))
    /\ last_known_locations[last_call.id] # last_call.loc
    /\ Last(trajectories[last_call.id]) = last_known_locations[last_call.id]
    /\ Len(trajectories[last_call.id]) > Len(last_call.sub)

\* C30: stationary moves leave the field state unchanged - for an agent with
\* the stationary strategy every Player.move() gives True, and the field's
\* last-known location and the trajectory's coordinates stay as they were
\* after registration (no coordinate is added while the agent stays put).
C30_StationaryFrame ==
    \A id \in DOMAIN players :
        players[id].kind = "noop"
            => /\ (last_call.op = "move" /\ last_call.id = id) => last_call.result = "True"
               /\ last_known_locations[id] = start_locations[id]
               /\ trajectories[id] = <<>>

====
